---- MODULE Spec2Model ----
(***************************************************************************)
(* Model of fortio.org/rand (src/rand.go): the Rand wrapper over the       *)
(* math/rand/v2 PCG generator, its seeding policy (NewRand, NewRandIdx,    *)
(* newRandSeeds) and its sampling methods.                                 *)
(*                                                                         *)
(* Scale.  The 64-bit words of the program are WordBits wide here, the     *)
(* 128-bit PCG state is 2*WordBits wide, and a uniform float carries       *)
(* FloatBits bits instead of 53.  Arithmetic on the sampled values is      *)
(* exact (scaled integers); float64 rounding is not modelled.              *)
(***************************************************************************)
EXTENDS Integers, Sequences, FiniteSets, TLC

(***************************************************************************)
(* Bounds and scale                                                        *)
(***************************************************************************)
WordBits == 4
FloatBits == 3
NormBits == 2
MaxCalls == 2
MaxGens == 2

WordMod == 2 ^ WordBits
StateMod == WordMod * WordMod
UnitDen == 2 ^ FloatBits
Words == 0 .. (WordMod - 1)
\* Go's int at the reduced width: two's complement, WordBits wide.
Ints == (0 - (WordMod \div 2)) .. ((WordMod \div 2) - 1)
Workers == 1 .. 2
Gens == 1 .. MaxGens

(***************************************************************************)
(* Word arithmetic                                                         *)
(***************************************************************************)
RECURSIVE Xor(_, _)
Xor(a, b) ==
    IF a = 0 THEN b
    ELSE IF b = 0 THEN a
    ELSE (((a % 2) + (b % 2)) % 2) + (2 * Xor(a \div 2, b \div 2))

\* Variant: the magnitude of idx instead of its two's complement.
ToUint64Wrong(idx) == IF idx < 0 THEN 0 - idx ELSE idx
\* The conversion uint64(idx) of a signed int: reduction modulo the word.
ToUint64(idx) == idx % WordMod

(***************************************************************************)
(* The core generator: math/rand/v2 PCG (DXSM), constants truncated to the *)
(* reduced state width.  A generator state is the integer hi*WordMod + lo. *)
(***************************************************************************)
\* Low 16 bits of the stdlib's multiplier, increment and DXSM multiplier.
PCGMulLow == 63045
PCGIncLow == 33103
CheapMulLow == 22709

\* rand.NewPCG(seed1, seed2): hi = seed1, lo = seed2.
NewPCG(seed1, seed2) == seed1 * WordMod + seed2

\* PCG.next: state = state * mul + inc.
PCGNext(s) == (s * (PCGMulLow % StateMod) + (PCGIncLow % StateMod)) % StateMod

\* The DXSM output permutation applied to the advanced state.
PCGOut(s) ==
    LET hi0 == s \div WordMod
        lo  == s % WordMod
        hi1 == Xor(hi0, hi0 \div (2 ^ (WordBits \div 2)))
        hi2 == (hi1 * (CheapMulLow % WordMod)) % WordMod
        hi3 == Xor(hi2, hi2 \div (2 ^ ((3 * WordBits) \div 4)))
    IN  (hi3 * (2 * (lo \div 2) + 1)) % WordMod

\* The state after n draws, and the n-th raw draw (n >= 1), from state s.
RECURSIVE Advance(_, _)
Advance(s, n) == IF n = 0 THEN s ELSE Advance(PCGNext(s), n - 1)
Draw(s, n) == PCGOut(Advance(s, n))

(***************************************************************************)
(* The stdlib methods the wrapper forwards to, as functions of the         *)
(* generator state s.  Each yields the result (a tuple of integers), the   *)
(* state after the call, the number of raw draws consumed, and whether the *)
(* call returned (ok) or panicked.                                         *)
(***************************************************************************)
Returned(res, s, n) == [res |-> res, st |-> Advance(s, n), n |-> n, ok |-> TRUE]
Panicked(s) == [res |-> <<>>, st |-> s, n |-> 0, ok |-> FALSE]

\* The i-th draw as a Float64: its low FloatBits bits, in units of 1/UnitDen.
U(s, i) == Draw(s, i) % UnitDen

\* The i-th draw as a NormFloat64: its low NormBits bits read as a signed
\* integer, in grid units (a draw can be exactly 0).
Norm(s, i) ==
    LET j == Draw(s, i) % (2 ^ NormBits)
    IN  IF j >= 2 ^ (NormBits - 1) THEN j - (2 ^ NormBits) ELSE j

rngFloat64(s) == Returned(<<U(s, 1)>>, s, 1)
rngNormFloat64(s) == Returned(<<Norm(s, 1)>>, s, 1)
rngUint64(s) == Returned(<<Draw(s, 1)>>, s, 1)

IsPow2(n) == \E k \in 0 .. WordBits : n = 2 ^ k

\* Rand.uint64n for n not a power of two: multiply-high with rejection of
\* the low products below thresh = -n % n.  i is the draw being tried.
RECURSIVE Uint64nLoop(_, _, _)
Uint64nLoop(s, n, i) ==
    LET prod   == Draw(s, i) * n
        hi     == prod \div WordMod
        lo     == prod % WordMod
        thresh == (WordMod - n) % n
    IN  IF lo < thresh THEN Uint64nLoop(s, n, i + 1)
        ELSE Returned(<<hi>>, s, i)

\* Variant: IntN without the check of n, returning a number for every n.
rngIntNNoCheck(s, n) ==
    IF n = 0 THEN Returned(<<0>>, s, 1)
    ELSE IF n < 0 THEN Returned(<<0 - ((Draw(s, 1) % (0 - n)))>>, s, 1)
    ELSE IF IsPow2(n) THEN Returned(<<Draw(s, 1) % n>>, s, 1)
    ELSE Uint64nLoop(s, n, 1)
\* Rand.IntN of math/rand/v2: "It panics if n <= 0."
rngIntN(s, n) ==
    IF n <= 0 THEN Panicked(s)
    ELSE IF IsPow2(n) THEN Returned(<<Draw(s, 1) % n>>, s, 1)
    ELSE Uint64nLoop(s, n, 1)

(***************************************************************************)
(* The sampling methods of Rand (src/rand.go), as functions of the         *)
(* generator state.  Float arguments are integers; results are scaled:     *)
(*   Float64, Random3, RandomInRange, SampleDisc   units of 1/UnitDen      *)
(*   RandomUnitVector  <<x, y, z, sq>>: the vector (x, y, z) / sqrt(sq)    *)
(*   SampleDiscAngle   <<a, b>>: the signed squares x*|x| and y*|y| of the *)
(*                     point, in units of 1/(2*UnitDen)                    *)
(***************************************************************************)
\* Variant: the three draws handed out last first.
Random3Reversed(s) == Returned(<<U(s, 3), U(s, 2), U(s, 1)>>, s, 3)
\* Three Float64 calls, evaluated left to right.
Random3(s) == Returned(<<U(s, 1), U(s, 2), U(s, 3)>>, s, 3)

\* Variant: the offset added to end instead of start.
RangeValueFromEnd(start, end, k) == (end * UnitDen) + ((end - start) * k)
\* start + l*u with l = end - start, u = k/UnitDen.
RangeValue(start, end, k) ==
    LET l == end - start
    IN  (start * UnitDen) + (l * k)

RandomInRange(s, start, end) == Returned(<<RangeValue(start, end, U(s, 1))>>, s, 1)

\* 1e-24 as 1/FloorInv grid units: below the smallest non-zero radius.
FloorInv == 1000
\* Variant: no floor, every triple accepted.
AboveFloorAlways(sq) == TRUE
\* radius > 1e-24, on the squares (sq = radius^2).
AboveFloor(sq) == sq * FloorInv * FloorInv > 1

\* radius^2 of the triple drawn by one iteration.
RadiusSq(x, y, z) == (x * x) + (y * y) + (z * z)

\* The loop of RandomUnitVector; i counts the iterations already rejected.
RECURSIVE UnitVectorLoop(_, _)
UnitVectorLoop(s, i) ==
    LET x  == Norm(s, (3 * i) + 1)
        y  == Norm(s, (3 * i) + 2)
        z  == Norm(s, (3 * i) + 3)
        sq == RadiusSq(x, y, z)
    IN  IF AboveFloor(sq) THEN Returned(<<x, y, z, sq>>, s, 3 * (i + 1))
        ELSE UnitVectorLoop(s, i + 1)
RandomUnitVector(s) == UnitVectorLoop(s, 0)

\* 2*u - 1.0 in units of 1/UnitDen.
Centered(k) == (2 * k) - UnitDen
\* Variant: the unit square's corners accepted too (x*x + y*y <= 2).
InUnitDiscLoose(x, y) == (x * x) + (y * y) <= 2 * UnitDen * UnitDen
\* Variant: the rim rejected (x*x + y*y < 1).
InUnitDiscStrict(x, y) == (x * x) + (y * y) < UnitDen * UnitDen
\* x*x + y*y <= 1
InUnitDisc(x, y) == (x * x) + (y * y) <= UnitDen * UnitDen

\* The loop of SampleDisc; i counts the pairs already rejected.
RECURSIVE SampleDiscLoop(_, _, _)
SampleDiscLoop(s, radius, i) ==
    LET x == Centered(U(s, (2 * i) + 1))
        y == Centered(U(s, (2 * i) + 2))
    IN  IF InUnitDisc(x, y) THEN Returned(<<radius * x, radius * y>>, s, 2 * (i + 1))
        ELSE SampleDiscLoop(s, radius, i + 1)
SampleDisc(s, radius) == SampleDiscLoop(s, radius, 0)

\* The octant of theta = 2*Pi*k/UnitDen; theta is exactly o*Pi/4 at UnitDen = 8.
Octant(k) == (8 * k) \div UnitDen

\* math.Cos and math.Sin at theta = o*Pi/4, o = 0..7: the squares in halves,
\* and the signs.
Cos2Half == <<2, 1, 0, 1, 2, 1, 0, 1>>
Sin2Half == <<0, 1, 2, 1, 0, 1, 2, 1>>
CosSign == <<1, 1, 0, -1, -1, -1, 0, 1>>
SinSign == <<0, 1, 1, 1, 0, -1, -1, -1>>

\* rad^2 for rad = radius * sqrt(u), u = k/UnitDen, in units of 1/UnitDen.
RadSq(radius, k) == radius * radius * k

SampleDiscAngle(s, radius) ==
    LET theta == Octant(U(s, 1))
        rsq   == RadSq(radius, U(s, 2))
        sgn   == IF radius < 0 THEN -1 ELSE 1
    IN  Returned(<<sgn * CosSign[theta + 1] * rsq * Cos2Half[theta + 1],
                   sgn * SinSign[theta + 1] * rsq * Sin2Half[theta + 1]>>, s, 2)

(***************************************************************************)
(* A call shape: the method and its arguments.                             *)
(***************************************************************************)
Shape(m, a) == [m |-> m, a |-> a]

Apply(sh, s) ==
    CASE sh.m = "Float64"          -> rngFloat64(s)
      [] sh.m = "NormFloat64"      -> rngNormFloat64(s)
      [] sh.m = "IntN"             -> rngIntN(s, sh.a[1])
      [] sh.m = "Uint64"           -> rngUint64(s)
      [] sh.m = "Random3"          -> Random3(s)
      [] sh.m = "RandomInRange"    -> RandomInRange(s, sh.a[1], sh.a[2])
      [] sh.m = "RandomUnitVector" -> RandomUnitVector(s)
      [] sh.m = "SampleDisc"       -> SampleDisc(s, sh.a[1])
      [] sh.m = "SampleDiscAngle"  -> SampleDiscAngle(s, sh.a[1])

(***************************************************************************)
(* State                                                                   *)
(***************************************************************************)
VARIABLES
    rng,    \* the heap of generators: rng[g] is the PCG state of *rand.Rand g
    ngen,   \* number of generators allocated so far
    seeds,  \* seeds[g]: the pair newRandSeeds was given for generator g
    ctor,   \* ctor[g]: the constructor call that made g
    rand,   \* rand[w]: the Rand value worker w holds (its rng pointer), 0 if none
    made,   \* made[w]: how w got its Rand: "none", "new" (a constructor), "copy"
    esrc,   \* state of the process-wide entropy source, -1 until its first use
    elog,   \* the words the entropy source has handed out, in order
    calls,  \* calls[g]: the method calls made on generator g, in call order
    frame   \* frame[w]: the loop worker w is inside ("none" outside a loop),
            \* its arguments, and the iterations it has completed

vars == <<rng, ngen, seeds, ctor, rand, made, esrc, elog, calls, frame>>

\* Not inside a loop.
Idle == [m |-> "none", a |-> <<>>, i |-> 0]

Init ==
    /\ rng = [g \in Gens |-> 0]
    /\ ngen = 0
    /\ seeds = [g \in Gens |-> <<0, 0>>]
    /\ ctor = [g \in Gens |-> [via |-> "none", idx |-> 0, seed |-> 0]]
    /\ rand = [w \in Workers |-> 0]
    /\ made = [w \in Workers |-> "none"]
    /\ esrc = -1
    /\ elog = <<>>
    /\ calls = [g \in Gens |-> <<>>]
    /\ frame = [w \in Workers |-> Idle]

(***************************************************************************)
(* Construction                                                            *)
(***************************************************************************)
\* Variants of NewRandIdxSeeds: the pair swapped; entropy taken when the
\* index, not the seed, is 0; a word drawn before the seed is looked at.
NewRandIdxSeedsSwapped(idx, seed, e1, e2) ==
    IF seed = 0 THEN [seed1 |-> e2, seed2 |-> e1, drawn |-> <<e1, e2>>]
    ELSE [seed1 |-> seed, seed2 |-> ToUint64(idx), drawn |-> <<>>]
NewRandIdxSeedsByIdx(idx, seed, e1, e2) ==
    IF idx = 0 THEN [seed1 |-> e1, seed2 |-> e2, drawn |-> <<e1, e2>>]
    ELSE [seed1 |-> ToUint64(idx), seed2 |-> seed, drawn |-> <<>>]
NewRandIdxSeedsEager(idx, seed, e1, e2) ==
    IF seed = 0 THEN [seed1 |-> e1, seed2 |-> e2, drawn |-> <<e1, e2>>]
    ELSE [seed1 |-> ToUint64(idx), seed2 |-> seed, drawn |-> <<e1>>]
\* The seed pair NewRandIdx passes on, and the entropy words it drew; e1 and
\* e2 are what the first and second rand.Uint64() would return.
NewRandIdxSeeds(idx, seed, e1, e2) ==
    IF seed = 0 THEN [seed1 |-> e1, seed2 |-> e2, drawn |-> <<e1, e2>>]
    ELSE [seed1 |-> ToUint64(idx), seed2 |-> seed, drawn |-> <<>>]

\* Variant: one package-level generator behind every Rand.
SharedGen(n) == 1
\* rand.New allocates a fresh generator object.
FreshGen(n) == n + 1

\* The process-wide source (the top-level rand.Uint64): seeded by the runtime
\* with e0 at its first use, then a stream of its own.
SourceState(e0) == IF esrc = -1 THEN e0 ELSE esrc

\* newRandSeeds(seed1, seed2) for worker w, recorded as made by `via`.
newRandSeeds(w, via, idx, seed, sd) ==
    LET g == FreshGen(ngen)
    IN  /\ ngen' = g
        /\ rng' = [rng EXCEPT ![g] = NewPCG(sd.seed1, sd.seed2)]
        /\ seeds' = [seeds EXCEPT ![g] = <<sd.seed1, sd.seed2>>]
        /\ ctor' = [ctor EXCEPT ![g] = [via |-> via, idx |-> idx, seed |-> seed]]
        /\ rand' = [rand EXCEPT ![w] = g]
        /\ made' = [made EXCEPT ![w] = "new"]
        /\ elog' = elog \o sd.drawn
        /\ UNCHANGED <<calls, frame>>

NewRandIdx(w, idx, seed, e0) ==
    LET src == SourceState(e0)
        sd  == NewRandIdxSeeds(idx, seed, Draw(src, 1), Draw(src, 2))
    IN  /\ rand[w] = 0
        /\ ngen < MaxGens
        /\ esrc' = IF sd.drawn = <<>> THEN esrc ELSE Advance(src, Len(sd.drawn))
        /\ newRandSeeds(w, "NewRandIdx", idx, seed, sd)

NewRand(w, seed, e0) ==
    LET src == SourceState(e0)
        sd  == NewRandIdxSeeds(0, seed, Draw(src, 1), Draw(src, 2))
    IN  /\ rand[w] = 0
        /\ ngen < MaxGens
        /\ esrc' = IF sd.drawn = <<>> THEN esrc ELSE Advance(src, Len(sd.drawn))
        /\ newRandSeeds(w, "NewRand", 0, seed, sd)

\* A by-value copy of v's Rand into w: the struct holds the pointer.
CopyRand(w, v) ==
    /\ rand[w] = 0
    /\ rand[v] # 0
    /\ rand' = [rand EXCEPT ![w] = rand[v]]
    /\ made' = [made EXCEPT ![w] = "copy"]
    /\ UNCHANGED <<rng, ngen, seeds, ctor, esrc, elog, calls, frame>>

(***************************************************************************)
(* Method calls                                                            *)
(***************************************************************************)
\* Variant: the generator held by value, so a value-receiver method advances
\* a copy only.
KeptStateByValue(before, after) == before
\* The generator state a call leaves behind: the methods reach the state
\* through the pointer, so the advanced state is the one kept.
KeptState(before, after) == after

Invoke(w, sh) ==
    LET g == rand[w]
        r == Apply(sh, rng[g])
    IN  /\ g # 0
        /\ frame[w] = Idle
        /\ Len(calls[g]) < MaxCalls
        /\ rng' = [rng EXCEPT ![g] = KeptState(rng[g], r.st)]
        /\ calls' = [calls EXCEPT ![g] =
                        Append(@, [w |-> w, sh |-> sh, res |-> r.res, n |-> r.n, ok |-> r.ok])]
        /\ UNCHANGED <<ngen, seeds, ctor, rand, made, esrc, elog, frame>>

Float64(w) == Invoke(w, Shape("Float64", <<>>))
NormFloat64(w) == Invoke(w, Shape("NormFloat64", <<>>))
IntN(w, n) == Invoke(w, Shape("IntN", <<n>>))
Uint64(w) == Invoke(w, Shape("Uint64", <<>>))
CallRandom3(w) == Invoke(w, Shape("Random3", <<>>))
CallRandomInRange(w, start, end) == Invoke(w, Shape("RandomInRange", <<start, end>>))
CallRandomUnitVector(w) == Invoke(w, Shape("RandomUnitVector", <<>>))
CallSampleDisc(w, radius) == Invoke(w, Shape("SampleDisc", <<radius>>))
CallSampleDiscAngle(w, radius) == Invoke(w, Shape("SampleDiscAngle", <<radius>>))

(***************************************************************************)
(* Spec: two workers that each construct or copy a Rand and call its       *)
(* methods, interleaved in any order.                                      *)
(***************************************************************************)
CtorArgs == {<<-1, 5>>, <<0, 5>>, <<1, 0>>}
SeedArgs == {5}
EntropyInits == {39}
IntNArgs == {3}
RangeArgs == {<<0, 2>>}
RadiusArgs == {2}

Next ==
    \/ \E w \in Workers, a \in CtorArgs, e0 \in EntropyInits :
           NewRandIdx(w, a[1], a[2], e0)
    \/ \E w \in Workers, seed \in SeedArgs, e0 \in EntropyInits :
           NewRand(w, seed, e0)
    \/ \E w, v \in Workers : CopyRand(w, v)
    \/ \E w \in Workers : Float64(w)
    \/ \E w \in Workers : NormFloat64(w)
    \/ \E w \in Workers, n \in IntNArgs : IntN(w, n)
    \/ \E w \in Workers : Uint64(w)
    \/ \E w \in Workers : CallRandom3(w)
    \/ \E w \in Workers, a \in RangeArgs : CallRandomInRange(w, a[1], a[2])
    \/ \E w \in Workers : CallRandomUnitVector(w)
    \/ \E w \in Workers, r \in RadiusArgs : CallSampleDisc(w, r)
    \/ \E w \in Workers, r \in RadiusArgs : CallSampleDiscAngle(w, r)

Spec == Init /\ [][Next]_vars

(***************************************************************************)
(* SpecSolo: one worker, with the constructor and the methods taking their *)
(* arguments from wide sets (every index, zero and non-zero seeds, empty   *)
(* and reversed ranges, n <= 0).                                           *)
(***************************************************************************)
SoloSeeds == {0, 5, 12}
SoloInits == {39, 200, 118}
SoloIntN == {-1, 0, 1, 3, 4, 7}
SoloBounds == {-2, 0, 1, 3}
SoloRadii == {0, 1, 3}

NextSolo ==
    \/ \E idx \in Ints, seed \in SoloSeeds, e0 \in SoloInits : NewRandIdx(1, idx, seed, e0)
    \/ \E seed \in SoloSeeds, e0 \in SoloInits : NewRand(1, seed, e0)
    \/ Float64(1)
    \/ NormFloat64(1)
    \/ \E n \in SoloIntN : IntN(1, n)
    \/ Uint64(1)
    \/ CallRandom3(1)
    \/ \E start, end \in SoloBounds : CallRandomInRange(1, start, end)
    \/ CallRandomUnitVector(1)
    \/ \E r \in SoloRadii : CallSampleDisc(1, r)
    \/ \E r \in SoloRadii : CallSampleDiscAngle(1, r)

SpecSolo == Init /\ [][NextSolo]_vars

(***************************************************************************)
(* SpecFleet: two workers that construct with any index and share seeds,   *)
(* then draw raw words.                                                    *)
(***************************************************************************)
FleetSeeds == {0, 5}

NextFleet ==
    \/ \E w \in Workers, idx \in Ints, seed \in FleetSeeds, e0 \in EntropyInits :
           NewRandIdx(w, idx, seed, e0)
    \/ \E w \in Workers, seed \in FleetSeeds, e0 \in EntropyInits : NewRand(w, seed, e0)
    \/ \E w \in Workers : Uint64(w)

SpecFleet == Init /\ [][NextFleet]_vars

(***************************************************************************)
(* The two loops, one iteration per step.  A call enters its loop, and     *)
(* each iteration draws a sample from the generator and either returns it  *)
(* or goes round again.                                                    *)
(***************************************************************************)
\* Variant: the loop gives up after one rejected sample and returns what it
\* has.
LoopExitCapped(accepted, i) == accepted \/ i >= 1
\* for { ... }: no condition and no counter; the loop is left only by the
\* return (the break) under the acceptance test.
LoopExit(accepted, i) == accepted

\* Worker w calls a looping method: control is at the head of its loop.
Enter(w, sh) ==
    /\ rand[w] # 0
    /\ frame[w] = Idle
    /\ Len(calls[rand[w]]) < MaxCalls
    /\ frame' = [frame EXCEPT ![w] = [m |-> sh.m, a |-> sh.a, i |-> 0]]
    /\ UNCHANGED <<rng, ngen, seeds, ctor, rand, made, esrc, elog, calls>>

EnterRandomUnitVector(w) == Enter(w, Shape("RandomUnitVector", <<>>))
EnterSampleDisc(w, radius) == Enter(w, Shape("SampleDisc", <<radius>>))

\* One iteration of worker w's loop: the sample res, drawn with n draws, is
\* returned if the loop is left and dropped otherwise.
Iterate(w, res, n, accepted) ==
    LET g == rand[w]
        f == frame[w]
    IN  /\ rng' = [rng EXCEPT ![g] = KeptState(rng[g], Advance(rng[g], n))]
        /\ IF LoopExit(accepted, f.i)
           THEN /\ calls' = [calls EXCEPT ![g] =
                                Append(@, [w |-> w, sh |-> Shape(f.m, f.a), res |-> res,
                                           n |-> n * (f.i + 1), ok |-> TRUE])]
                /\ frame' = [frame EXCEPT ![w] = Idle]
           ELSE /\ frame' = [frame EXCEPT ![w].i = f.i + 1]
                /\ UNCHANGED calls
        /\ UNCHANGED <<ngen, seeds, ctor, rand, made, esrc, elog>>

IterRandomUnitVector(w) ==
    LET s  == rng[rand[w]]
        x  == Norm(s, 1)
        y  == Norm(s, 2)
        z  == Norm(s, 3)
        sq == RadiusSq(x, y, z)
    IN  /\ frame[w].m = "RandomUnitVector"
        /\ Iterate(w, <<x, y, z, sq>>, 3, AboveFloor(sq))

IterSampleDisc(w) ==
    LET s == rng[rand[w]]
        x == Centered(U(s, 1))
        y == Centered(U(s, 2))
        radius == frame[w].a[1]
    IN  /\ frame[w].m = "SampleDisc"
        /\ Iterate(w, <<radius * x, radius * y>>, 2, InUnitDisc(x, y))

(***************************************************************************)
(* SpecLoop: two workers, each with a Rand of its own, calling the looping *)
(* methods.  A goroutine inside a loop keeps being scheduled (weak         *)
(* fairness of the iterations); nothing obliges a caller to call.          *)
(***************************************************************************)
LoopCtorArgs == {<<7, 12>>, <<0, 5>>}
LoopRadii == {1, 3}

NextLoop ==
    \/ \E w \in Workers, a \in LoopCtorArgs, e0 \in EntropyInits :
           NewRandIdx(w, a[1], a[2], e0)
    \/ \E w \in Workers : EnterRandomUnitVector(w)
    \/ \E w \in Workers, r \in LoopRadii : EnterSampleDisc(w, r)
    \/ \E w \in Workers : IterRandomUnitVector(w)
    \/ \E w \in Workers : IterSampleDisc(w)

SpecLoop ==
    /\ Init
    /\ [][NextLoop]_vars
    /\ \A w \in Workers :
           WF_vars(IterRandomUnitVector(w)) /\ WF_vars(IterSampleDisc(w))

(***************************************************************************)
(* Reading the call logs                                                   *)
(***************************************************************************)
Min(a, b) == IF a < b THEN a ELSE b

\* The state generator g was seeded with.
InitState(g) == NewPCG(seeds[g][1], seeds[g][2])

RECURSIVE DrawsIn(_, _)
\* Raw draws consumed by the first k calls of a log.
DrawsIn(log, k) == IF k = 0 THEN 0 ELSE DrawsIn(log, k - 1) + log[k].n

\* The generator state just before call k of generator g.
StateBefore(g, k) == Advance(InitState(g), DrawsIn(calls[g], k - 1))

\* What one handle, used alone from state s, returns for the shapes shs.
RECURSIVE Replay(_, _)
Replay(s, shs) ==
    IF shs = <<>> THEN <<>>
    ELSE LET r == Apply(Head(shs), s)
         IN  <<[res |-> r.res, ok |-> r.ok]>> \o Replay(r.st, Tail(shs))

Shapes(log) == [i \in 1 .. Len(log) |-> log[i].sh]
Results(log) == [i \in 1 .. Len(log) |-> [res |-> log[i].res, ok |-> log[i].ok]]

\* The calls worker w made, in order.
RECURSIVE Own(_, _)
Own(log, w) ==
    IF log = <<>> THEN <<>>
    ELSE (IF Head(log).w = w THEN <<Head(log)>> ELSE <<>>) \o Own(Tail(log), w)

\* The first n raw words of the stream from state s.
Stream(s, n) == [i \in 1 .. n |-> Draw(s, i)]

SameCtorArgs(g, h) == ctor[g].idx = ctor[h].idx /\ ctor[g].seed = ctor[h].seed

(***************************************************************************)
(* C1.  Two Rand instances built by NewRandIdx with the same (index, seed),*)
(* seed != 0, return identical results call for call: whenever the first k *)
(* calls made on each have the same shapes (same methods, same arguments,  *)
(* same order), the k-th call returns the same result on both.             *)
(***************************************************************************)
C1_SameSeedSameResults ==
    \A g, h \in 1 .. ngen :
        (g # h /\ ctor[g].seed # 0 /\ SameCtorArgs(g, h)) =>
            \A k \in 1 .. Min(Len(calls[g]), Len(calls[h])) :
                (\A j \in 1 .. k : calls[g][j].sh = calls[h][j].sh) =>
                    /\ calls[g][k].ok = calls[h][k].ok
                    /\ calls[g][k].res = calls[h][k].res

\* Two separately built instances with equal (index, seed) have each made a
\* rejection-loop call and then a Random3 call.
C1_Witness ==
    /\ ngen = 2
    /\ ctor[1].seed # 0
    /\ ctor[1].via = "NewRandIdx" /\ ctor[2].via = "NewRandIdx"
    /\ SameCtorArgs(1, 2)
    /\ Len(calls[1]) = 2 /\ Len(calls[2]) = 2
    /\ Shapes(calls[1]) = Shapes(calls[2])
    /\ calls[1][1].sh.m = "SampleDisc"
    /\ calls[1][2].sh.m = "Random3"

(***************************************************************************)
(* C2.  For seed != 0, NewRandIdx(idx, seed) seeds the core generator with *)
(* the pair (uint64(idx), seed), index first and seed second; NewRand(seed)*)
(* gets the pair (0, seed) and the same stream as NewRandIdx(0, seed).     *)
(***************************************************************************)
C2_SeedPair ==
    \A g \in 1 .. ngen :
        ctor[g].seed # 0 =>
            LET first == IF ctor[g].idx < 0 THEN ctor[g].idx + WordMod ELSE ctor[g].idx
            IN  /\ seeds[g] = <<first, ctor[g].seed>>
                /\ rng[g] = Advance((first * WordMod) + ctor[g].seed,
                                    DrawsIn(calls[g], Len(calls[g])))
                /\ ctor[g].via = "NewRand" => seeds[g] = <<0, ctor[g].seed>>
                /\ \A h \in 1 .. ngen :
                       (/\ ctor[g].via = "NewRand"
                        /\ ctor[h].via = "NewRandIdx"
                        /\ ctor[h].idx = 0
                        /\ ctor[h].seed = ctor[g].seed
                        /\ Shapes(calls[g]) = Shapes(calls[h]))
                       => Results(calls[g]) = Results(calls[h])

\* A NewRand(seed) instance and a NewRandIdx(0, seed) instance, seed != 0,
\* have each drawn two words, and a negative index has been used too.
C2_Witness ==
    /\ ngen = 2
    /\ ctor[1].via = "NewRand" /\ ctor[2].via = "NewRandIdx"
    /\ ctor[2].idx = 0
    /\ ctor[1].seed # 0 /\ ctor[2].seed = ctor[1].seed
    /\ Len(calls[1]) = 2 /\ Len(calls[2]) = 2

(***************************************************************************)
(* C3.  For a fixed seed != 0 and distinct indices (negative ones          *)
(* included), the two instances get distinct seed pairs and their output   *)
(* sequences differ.                                                       *)
(***************************************************************************)
StreamLen == 3

C3_DistinctStreams ==
    \A g, h \in 1 .. ngen :
        (/\ ctor[g].seed # 0
         /\ ctor[h].seed = ctor[g].seed
         /\ ctor[g].idx # ctor[h].idx)
        => /\ seeds[g] # seeds[h]
           /\ Stream(InitState(g), StreamLen) # Stream(InitState(h), StreamLen)
           /\ (/\ calls[g] # <<>>
               /\ Shapes(calls[g]) = Shapes(calls[h]))
              => Results(calls[g]) # Results(calls[h])

\* Workers with indices -1 and 1 share one non-zero seed and have both drawn.
C3_Witness ==
    /\ ngen = 2
    /\ ctor[1].seed # 0 /\ ctor[2].seed = ctor[1].seed
    /\ ctor[1].idx = -1 /\ ctor[2].idx = 1
    /\ Len(calls[1]) = 2 /\ Len(calls[2]) = 2

(***************************************************************************)
(* C4.  NewRandIdx advances the process-wide entropy source by exactly two *)
(* draws when seed == 0, using them in order as (seed1, seed2) whatever    *)
(* idx is, and leaves it untouched when seed != 0; no sampling method      *)
(* touches the entropy source.                                             *)
(***************************************************************************)
C4_EntropyStep ==
    IF ngen' # ngen
    THEN IF ctor'[ngen'].seed = 0
         THEN /\ elog' = elog \o seeds'[ngen']
              /\ \E e \in 0 .. (StateMod - 1) :
                     /\ (esrc # -1 => e = esrc)
                     /\ seeds'[ngen'] = <<Draw(e, 1), Draw(e, 2)>>
                     /\ esrc' = Advance(e, 2)
         ELSE elog' = elog /\ esrc' = esrc
    ELSE elog' = elog /\ esrc' = esrc

C4_EntropyFrame == [][C4_EntropyStep]_vars

\* An instance built with seed 0 and a negative index has taken two words
\* from the entropy source and has then served two method calls.
C4_Witness ==
    /\ ngen = 1
    /\ ctor[1].seed = 0
    /\ ctor[1].idx < 0
    /\ Len(elog) = 2
    /\ seeds[1] = <<elog[1], elog[2]>>
    /\ Len(calls[1]) = 2

C6_UnitVector ==
    \A g \in 1 .. ngen : \A k \in 1 .. Len(calls[g]) :
        LET c == calls[g][k]
            s == StateBefore(g, k)
        IN  c.sh.m = "RandomUnitVector" =>
            /\ c.ok /\ c.n >= 3 /\ c.n % 3 = 0
            /\ c.res[1] = Norm(s, c.n - 2)
            /\ c.res[2] = Norm(s, c.n - 1)
            /\ c.res[3] = Norm(s, c.n)
            /\ c.res[4] = (c.res[1] * c.res[1]) + (c.res[2] * c.res[2]) + (c.res[3] * c.res[3])
            /\ c.res[4] * FloorInv * FloorInv > 1
            /\ \A i \in 1 .. ((c.n \div 3) - 1) :
                   LET x == Norm(s, (3 * i) - 2)
                       y == Norm(s, (3 * i) - 1)
                       z == Norm(s, 3 * i)
                   IN  ((x * x) + (y * y) + (z * z)) * FloorInv * FloorInv <= 1

\* A call of RandomUnitVector that rejected its first triple and returned
\* the second.
C6_Witness ==
    \E g \in 1 .. ngen : \E k \in 1 .. Len(calls[g]) :
        /\ calls[g][k].sh.m = "RandomUnitVector"
        /\ calls[g][k].n = 6

(***************************************************************************)
(* C7.  For every radius r >= 0 the points returned by SampleDisc(r) and   *)
(* by SampleDiscAngle(r) satisfy x^2 + y^2 <= r^2.                         *)
(***************************************************************************)
Abs(v) == IF v < 0 THEN 0 - v ELSE v

C7_WithinDisc ==
    \A g \in 1 .. ngen : \A k \in 1 .. Len(calls[g]) :
        LET c == calls[g][k]
            r == c.sh.a[1]
        IN  /\ (c.sh.m = "SampleDisc" /\ r >= 0) =>
                   (c.res[1] * c.res[1]) + (c.res[2] * c.res[2])
                       <= (r * UnitDen) * (r * UnitDen)
            /\ (c.sh.m = "SampleDiscAngle" /\ r >= 0) =>
                   Abs(c.res[1]) + Abs(c.res[2]) <= r * r * 2 * UnitDen

\* One Rand has served a SampleDisc call that rejected a pair before
\* returning a point off the origin, and a SampleDiscAngle call that
\* returned a point off both axes.
C7_Witness ==
    /\ ngen = 1 /\ Len(calls[1]) = 2
    /\ \E k \in 1 .. 2 :
           /\ calls[1][k].sh.m = "SampleDisc"
           /\ calls[1][k].sh.a[1] > 0
           /\ calls[1][k].n > 2
           /\ calls[1][k].res # <<0, 0>>
    /\ \E k \in 1 .. 2 :
           /\ calls[1][k].sh.m = "SampleDiscAngle"
           /\ calls[1][k].sh.a[1] > 0
           /\ calls[1][k].res[1] # 0 /\ calls[1][k].res[2] # 0

(***************************************************************************)
(* C8.  Distinct Rand instances share no mutable state: a call on one      *)
(* generator leaves every other generator's state and log unchanged, and a *)
(* worker that owns a separately constructed Rand (no copy of it is in     *)
(* use) observes exactly the results it would observe running alone.       *)
(***************************************************************************)
C8_RunsAlone ==
    \A w \in Workers :
        (made[w] = "new" /\ \A v \in Workers : made[v] # "copy") =>
            LET mine == Own(calls[rand[w]], w)
            IN  Results(mine) = Replay(InitState(rand[w]), Shapes(mine))

C8_Step ==
    \A g, h \in 1 .. ngen :
        (g # h /\ calls'[g] # calls[g]) => (rng'[h] = rng[h] /\ calls'[h] = calls[h])

C8_Isolation == []C8_RunsAlone /\ [][C8_Step]_vars

\* Two workers with separately constructed instances have interleaved two
\* calls each.
C8_Witness ==
    /\ made[1] = "new" /\ made[2] = "new"
    /\ rand[1] # rand[2]
    /\ Len(Own(calls[rand[1]], 1)) = 2
    /\ Len(Own(calls[rand[2]], 2)) = 2

(***************************************************************************)
(* C9.  A by-value copy of a Rand aliases the original's generator: the    *)
(* results obtained through the original and its copies, in call order,    *)
(* are those a single handle would produce, and the generator has advanced *)
(* by the draws of all of them.                                            *)
(***************************************************************************)
C9_Aliasing ==
    /\ \A w \in Workers :
           made[w] = "copy" => \E v \in Workers : v # w /\ made[v] = "new" /\ rand[v] = rand[w]
    /\ \A g \in 1 .. ngen :
           /\ Results(calls[g]) = Replay(InitState(g), Shapes(calls[g]))
           /\ rng[g] = Advance(InitState(g), DrawsIn(calls[g], Len(calls[g])))

\* Worker 2 holds a copy of worker 1's Rand, both have called Float64, and
\* what worker 1 got is not what it would have got running alone: its
\* sequence depends on the interleaving.
C9_Witness ==
    /\ made[1] = "new" /\ made[2] = "copy"
    /\ Len(calls[rand[1]]) = 2
    /\ calls[rand[1]][1].w = 2 /\ calls[rand[1]][2].w = 1
    /\ calls[rand[1]][1].sh.m = "Float64" /\ calls[rand[1]][2].sh.m = "Float64"
    /\ Results(Own(calls[rand[1]], 1))
           # Replay(InitState(rand[1]), Shapes(Own(calls[rand[1]], 1)))

(***************************************************************************)
(* C10.  As claimed: violating a precondition never crashes; every call,   *)
(* IntN(n) with n <= 0 and RandomInRange with end < start included,        *)
(* returns a numeric result.                                               *)
(***************************************************************************)
C10_NeverCrashes ==
    \A g \in 1 .. ngen : \A k \in 1 .. Len(calls[g]) :
        calls[g][k].ok /\ calls[g][k].res # <<>>

(***************************************************************************)
(* C10, amended.  RandomInRange with end < start is not checked: it        *)
(* returns start + (end - start) * u, a value in the reversed range        *)
(* [end, start].  IntN(n) with n <= 0 panics, and returns for n > 0 a      *)
(* value in [0, n); the panic consumes no draw.  After either, the         *)
(* generator is where the draws consumed so far put it, and the next call  *)
(* behaves as on a fresh handle in that state.                             *)
(***************************************************************************)
C10_Preconditions ==
    \A g \in 1 .. ngen :
        /\ rng[g] = Advance(InitState(g), DrawsIn(calls[g], Len(calls[g])))
        /\ \A k \in 1 .. Len(calls[g]) :
               LET c == calls[g][k] IN
               /\ (c.sh.m = "RandomInRange" /\ c.sh.a[2] < c.sh.a[1]) =>
                      /\ c.ok /\ c.n = 1
                      /\ c.sh.a[2] * UnitDen <= c.res[1]
                      /\ c.res[1] <= c.sh.a[1] * UnitDen
               /\ (c.sh.m = "IntN" /\ c.sh.a[1] <= 0) =>
                      (~c.ok /\ c.n = 0 /\ c.res = <<>>)
               /\ (c.sh.m = "IntN" /\ c.sh.a[1] > 0) =>
                      (c.ok /\ c.n >= 1 /\ 0 <= c.res[1] /\ c.res[1] < c.sh.a[1])
               /\ [res |-> c.res, ok |-> c.ok]
                      = Head(Replay(StateBefore(g, k), <<c.sh>>))

\* IntN(0) has panicked, and the same Rand has then served a RandomInRange
\* call on a reversed range.
C10_Witness ==
    /\ ngen = 1 /\ Len(calls[1]) = 2
    /\ calls[1][1].sh = Shape("IntN", <<0>>)
    /\ ~calls[1][1].ok
    /\ calls[1][2].sh = Shape("RandomInRange", <<3, -2>>)
    /\ calls[1][2].ok
    /\ calls[1][2].res[1] < 3 * UnitDen

(***************************************************************************)
(* C11.  The samplers without a loop consume a fixed number of uniform     *)
(* draws, in a fixed order.  Random3 returns what three successive         *)
(* Float64 calls return, as x, then y, then z, and consumes three draws;   *)
(* RandomInRange consumes one, the u of start + (end - start) * u;         *)
(* SampleDiscAngle consumes two: the first fixes the direction theta, the  *)
(* second the distance, rad^2 = radius^2 * u.                              *)
(***************************************************************************)
Sgn(v) == IF v < 0 THEN -1 ELSE IF v > 0 THEN 1 ELSE 0

\* What n successive Float64 calls from state s return.
Floats(s, n) ==
    LET f == Replay(s, [i \in 1 .. n |-> Shape("Float64", <<>>)])
    IN  [i \in 1 .. n |-> f[i].res[1]]

C11_FixedDraws ==
    \A g \in 1 .. ngen :
        /\ rng[g] = Advance(InitState(g), DrawsIn(calls[g], Len(calls[g])))
        /\ \A k \in 1 .. Len(calls[g]) :
               LET c == calls[g][k]
                   s == StateBefore(g, k)
               IN  /\ c.sh.m = "Random3" =>
                          (c.ok /\ c.n = 3 /\ c.res = Floats(s, 3))
                   /\ c.sh.m = "RandomInRange" =>
                          /\ c.ok /\ c.n = 1
                          /\ c.res[1] = (c.sh.a[1] * UnitDen)
                                          + ((c.sh.a[2] - c.sh.a[1]) * Floats(s, 1)[1])
                   /\ c.sh.m = "SampleDiscAngle" =>
                          LET f == Floats(s, 2)
                              o == Octant(f[1]) + 1
                              r == c.sh.a[1]
                          IN  /\ c.ok /\ c.n = 2
                              /\ Abs(c.res[1]) + Abs(c.res[2]) = 2 * r * r * f[2]
                              /\ (r # 0 /\ f[2] # 0) =>
                                     /\ Sgn(c.res[1]) = Sgn(r) * CosSign[o]
                                     /\ Sgn(c.res[2]) = Sgn(r) * SinSign[o]

\* One Rand has served a SampleDiscAngle call whose two draws differ and
\* whose point is off both axes, and a Random3 call, not its first call,
\* whose three components are pairwise distinct.
C11_Witness ==
    /\ ngen = 1 /\ Len(calls[1]) = 2
    /\ calls[1][1].sh = Shape("SampleDiscAngle", <<3>>)
    /\ Floats(StateBefore(1, 1), 2)[1] # Floats(StateBefore(1, 1), 2)[2]
    /\ calls[1][1].res[1] # 0 /\ calls[1][1].res[2] # 0
    /\ calls[1][2].sh.m = "Random3"
    /\ calls[1][2].res[1] # calls[1][2].res[2]
    /\ calls[1][2].res[2] # calls[1][2].res[3]
    /\ calls[1][2].res[1] # calls[1][2].res[3]

(***************************************************************************)
(* C12.  SampleDisc(r) takes its draws two at a time, x first and then y,  *)
(* each mapped by 2u - 1, and returns r*(x, y) for the first pair with     *)
(* x^2 + y^2 <= 1: a call that returns at trial k has consumed 2k draws,   *)
(* every pair before the k-th had x^2 + y^2 > 1, and a pair on the rim     *)
(* x^2 + y^2 = 1 is returned.                                              *)
(***************************************************************************)
C12_FirstAccepted ==
    \A g \in 1 .. ngen : \A k \in 1 .. Len(calls[g]) :
        LET c == calls[g][k]
            s == StateBefore(g, k)
            f == Floats(s, c.n)
            r == c.sh.a[1]
            X(i) == (2 * f[(2 * i) - 1]) - UnitDen
            Y(i) == (2 * f[2 * i]) - UnitDen
            t == c.n \div 2
        IN  c.sh.m = "SampleDisc" =>
            /\ c.ok /\ c.n >= 2 /\ c.n % 2 = 0
            /\ c.res = <<r * X(t), r * Y(t)>>
            /\ (X(t) * X(t)) + (Y(t) * Y(t)) <= UnitDen * UnitDen
            /\ \A i \in 1 .. (t - 1) :
                   (X(i) * X(i)) + (Y(i) * Y(i)) > UnitDen * UnitDen

\* A SampleDisc call has discarded a pair and then returned a pair on the
\* rim.
C12_Witness ==
    \E g \in 1 .. ngen : \E k \in 1 .. Len(calls[g]) :
        /\ calls[g][k].sh = Shape("SampleDisc", <<1>>)
        /\ calls[g][k].n >= 4
        /\ (calls[g][k].res[1] * calls[g][k].res[1])
             + (calls[g][k].res[2] * calls[g][k].res[2]) = UnitDen * UnitDen

(***************************************************************************)
(* C13.  The loops of RandomUnitVector and SampleDisc have no iteration    *)
(* cap and no error exit, and every call returns.  An iteration whose      *)
(* sample is accepted (radius above the floor; x^2 + y^2 <= 1) returns it, *)
(* and the call has then done what the method does as a whole from the     *)
(* state it was entered in; an iteration whose sample is rejected goes     *)
(* round again, however many came before; a call returns in no other way.  *)
(* The generator yields an accepted sample after finitely many draws, so   *)
(* every call that has entered its loop eventually returns.                *)
(***************************************************************************)
\* The sample the next iteration of w's loop draws is an accepted one.
NextAccepted(w) ==
    LET s == rng[rand[w]]
        n == Floats(s, 2)
        X == (2 * n[1]) - UnitDen
        Y == (2 * n[2]) - UnitDen
        v == Replay(s, [i \in 1 .. 3 |-> Shape("NormFloat64", <<>>)])
    IN  IF frame[w].m = "SampleDisc"
        THEN (X * X) + (Y * Y) <= UnitDen * UnitDen
        ELSE ((v[1].res[1] * v[1].res[1]) + (v[2].res[1] * v[2].res[1])
                 + (v[3].res[1] * v[3].res[1])) * FloorInv * FloorInv > 1

C13_Step ==
    \A w \in Workers :
        LET g  == rand[w]
            f  == frame[w]
            s0 == Advance(InitState(g), DrawsIn(calls[g], Len(calls[g])))
            r  == Apply(Shape(f.m, f.a), s0)
        IN  /\ (f # Idle /\ frame'[w] # f) =>
                   IF NextAccepted(w)
                   THEN /\ frame'[w] = Idle
                        /\ calls'[g] = Append(calls[g],
                               [w |-> w, sh |-> Shape(f.m, f.a), res |-> r.res,
                                n |-> r.n, ok |-> TRUE])
                        /\ rng'[g] = r.st
                   ELSE /\ frame'[w] = [f EXCEPT !.i = f.i + 1]
                        /\ calls'[g] = calls[g]
            /\ (g # 0 /\ calls'[g] # calls[g]) => (f # Idle /\ NextAccepted(w))

C13_Returns == \A w \in Workers : (frame[w] # Idle) ~> (frame[w] = Idle)

C13_Termination == C13_Returns /\ [][C13_Step]_vars

\* Both loops have gone round again and then returned: one worker's
\* RandomUnitVector call took two triples, the other's SampleDisc call at
\* least two pairs.
C13_Witness ==
    /\ frame = [w \in Workers |-> Idle]
    /\ \E g, h \in 1 .. ngen : \E k \in 1 .. Len(calls[g]) : \E j \in 1 .. Len(calls[h]) :
           /\ calls[g][k].sh.m = "RandomUnitVector" /\ calls[g][k].n = 6
           /\ calls[h][j].sh.m = "SampleDisc" /\ calls[h][j].n >= 4

====
